---- MODULE Spec2Model ----
(***************************************************************************)
(* Model of src/fibonacci/fiat_shamir.rs: generate_fs_hints, the           *)
(* Fiat-Shamir hint generation pipeline for the Fibonacci AIR, and the     *)
(* wire serialization of FiatShamirHints (bitcoin_script_push).            *)
(*                                                                         *)
(* One behaviour is one invocation of generate_fs_hints on one proof, one  *)
(* transcript (channel) and one AIR, followed, when it returned Ok, by one *)
(* serialization of the hint bundle.  Field elements, digests and circle   *)
(* points are abstracted to small residue rings; the channel keeps, next   *)
(* to its digest, the list of operations performed on it.                  *)
(***************************************************************************)
EXTENDS Integers, Sequences, FiniteSets, TLC

(***************************************************************************)
(* Bounds of the model.                                                    *)
(***************************************************************************)
\* largest log size of the Fibonacci trace column
MaxLogSize == 2
\* largest number of FRI inner-layer proofs carried by a proof
MaxLayers == 3
\* largest number of last-layer coefficients carried by a proof
MaxCoeffs == 2
\* largest number of non-zero entries in a proof's sampled-value table
MaxNonZero == 1

(***************************************************************************)
(* Protocol constants imported from stwo_prover.                           *)
(***************************************************************************)
LOG_BLOWUP_FACTOR == 1
LOG_LAST_LAYER_DEGREE_BOUND == 0
N_QUERIES == 3
PROOF_OF_WORK_BITS == 12
FOLD_STEP == 1
\* CirclePolyDegreeBound::fold_to_line folds once from the circle to the line
CIRCLE_TO_LINE_FOLD_STEP == 1

(***************************************************************************)
(* Value domains.                                                          *)
(***************************************************************************)
\* SecureField / QM31, abstracted to a prime residue field
SecureField == {0, 1, 2}
\* BWSSha256Hash, abstracted to residues
BWSSha256Hash == {0, 1, 2, 3, 4, 5, 6}
\* field elements and digests a proof may carry
ProofFelts == {0, 1}
ProofDigests == {0, 1}
\* proof-of-work nonces a proof may carry
Nonces == {0, 1}

P == Cardinality(SecureField)
D == Cardinality(BWSSha256Hash)

(***************************************************************************)
(* Sequence helpers.                                                       *)
(***************************************************************************)
SeqsUpTo(S, n) == UNION {[1..k -> S] : k \in 0..n}

RECURSIVE Flatten(_)
\* concatenation of a sequence of sequences (flatten / flatten_cols)
Flatten(ss) == IF ss = <<>> THEN <<>> ELSE Head(ss) \o Flatten(Tail(ss))

RECURSIVE Insert(_, _)
\* insertion of x into an ascending sequence
Insert(x, s) ==
    IF s = <<>> THEN <<x>>
    ELSE IF x <= Head(s) THEN <<x>> \o s
    ELSE <<Head(s)>> \o Insert(x, Tail(s))

RECURSIVE Sorted(_)
\* Itertools::sorted: ascending order
Sorted(s) == IF s = <<>> THEN <<>> ELSE Insert(Head(s), Sorted(Tail(s)))

\* Iterator::rev
Rev(s) == [i \in 1..Len(s) |-> s[Len(s) + 1 - i]]

RECURSIVE Dedup(_)
\* Itertools::dedup: drops every element equal to its predecessor
Dedup(s) ==
    IF Len(s) <= 1 THEN s
    ELSE IF s[1] = s[2] THEN Dedup(Tail(s))
    ELSE <<s[1]>> \o Dedup(Tail(s))

\* vec![x; n]
Repeat(x, n) == [i \in 1..n |-> x]

RECURSIVE Pow2(_)
\* 1 << n
Pow2(n) == IF n = 0 THEN 1 ELSE 2 * Pow2(n - 1)

(***************************************************************************)
(* The channel (transcript).  digest is the running hash; transcript is    *)
(* the list of operations performed on the channel so far, each with the   *)
(* role the caller gave it and the data absorbed or the digest drawn from. *)
(***************************************************************************)
Event(op, what, data) == [op |-> op, what |-> what, data |-> data]

\* Channel::mix_digest
MixDigest(ch, what, d) ==
    [digest |-> (3 * ch.digest + d + 1) % D,
     transcript |-> Append(ch.transcript, Event("mix_digest", what, d))]

RECURSIVE HashFelts(_, _)
HashFelts(dg, felts) ==
    IF felts = <<>> THEN dg
    ELSE HashFelts((2 * dg + Head(felts) + 3) % D, Tail(felts))

\* Channel::mix_felts
MixFelts(ch, what, felts) ==
    [digest |-> HashFelts(ch.digest, felts),
     transcript |-> Append(ch.transcript, Event("mix_felts", what, felts))]

\* Channel::mix_nonce
MixNonce(ch, nonce) ==
    [digest |-> (ch.digest + 3 * nonce + 4) % D,
     transcript |-> Append(ch.transcript, Event("mix_nonce", "nonce", nonce))]

\* the value a draw extracts from a digest, and the digest it leaves
DrawValue(dg) == (dg * dg + dg + 1) % P
DrawNext(dg) == (5 * dg + 2) % D

\* DrawHints: the replay witness of one draw
DrawHints(dg) == [kind |-> "DrawHints", digest |-> dg]

\* ChannelWithHint::draw_felt_and_hints: <<channel after, felt, hint>>
DrawFeltAndHints(ch, what) ==
    <<[digest |-> DrawNext(ch.digest),
       transcript |-> Append(ch.transcript, Event("draw_felt", what, ch.digest))],
      DrawValue(ch.digest),
      DrawHints(ch.digest)>>

\* CirclePoint::get_random_point_with_hint: <<channel after, point, hint>>
GetRandomPointWithHint(ch) ==
    <<[digest |-> DrawNext(ch.digest),
       transcript |-> Append(ch.transcript, Event("draw_point", "oods_point", ch.digest))],
      (2 * ch.digest + 1) % P,
      [kind |-> "OODSHint", digest |-> ch.digest]>>

\* Queries::generate_with_hints: <<channel after, queries, hint>>
GenerateWithHints(ch, log_domain_size, n_queries) ==
    <<[digest |-> DrawNext(ch.digest),
       transcript |-> Append(ch.transcript, Event("draw_queries", "queries", ch.digest))],
      [log_domain_size |-> log_domain_size, n_queries |-> n_queries,
       seed |-> ch.digest],
      DrawHints(ch.digest)>>

\* ProofOfWork::verify's test of the nonce against the digest
PowValid(dg, nonce) == (dg + nonce) % 2 = 0

\* PoWHint::new
PoWHint(dg, nonce, n_bits) ==
    [kind |-> "PoWHint", digest |-> dg, nonce |-> nonce, n_bits |-> n_bits]

(***************************************************************************)
(* The AIR (FibonacciAir with one trace column of log size log_size).      *)
(***************************************************************************)
\* air.column_log_sizes()
AirColumnLogSizes(a) == <<a.log_size>>

\* air.composition_log_degree_bound()
CompositionLogDegreeBound(a) == a.log_size + 1

\* air.mask_points(point): one component, one column, three points
MaskPoints(point) == << << <<point, (point + 1) % P, (point + 2) % P>> >> >>

\* component.boundary_constraint_eval_quotient_by_mask
BoundaryQuotient(point, m) == (m[1] + 2 * point + 2) % P

\* component.step_constraint_eval_quotient_by_mask
StepQuotient(point, m) ==
    ((m[1] * m[1] + m[2] * m[2] + 2 * m[3]) * (point + 1)) % P

\* air.eval_composition_polynomial_at_point: the accumulator folds the step
\* quotient, then the boundary quotient, with powers of random_coeff
EvalCompositionPolynomialAtPoint(point, mask_values, random_coeff) ==
    (StepQuotient(point, mask_values[1][1]) * random_coeff
       + BoundaryQuotient(point, mask_values[1][1])) % P

(***************************************************************************)
(* sampled_values_to_mask                                                  *)
(***************************************************************************)
\* the expected layout: one trace column of 3 values, four composition
\* columns of 1 value
ShapeOk(sv) ==
    /\ Len(sv) = 2
    /\ Len(sv[1]) = 1
    /\ Len(sv[1][1]) = 3
    /\ Len(sv[2]) = 4
    /\ \A i \in 1..4 : Len(sv[2][i]) = 1

\* SecureCirclePoly::eval_from_partial_evals
EvalFromPartialEvals(c) == (c[1] + 2 * c[2] + c[3] + 2 * c[4]) % P

\* the Ok value of sampled_values_to_mask: <<trace_oods_values, composition_oods_value>>
SampledValuesToMask(sv) == << <<sv[1]>>, EvalFromPartialEvals(Flatten(sv[2])) >>

(***************************************************************************)
(* Degree bounds and domains (stwo_prover::core::fri, ::poly::line).       *)
(***************************************************************************)
\* CirclePolyDegreeBound::fold_to_line
FoldToLine(log_degree_bound) == log_degree_bound - CIRCLE_TO_LINE_FOLD_STEP

\* LinePolyDegreeBound::fold: <<>> (None) when the bound is below n_folds
Fold(log_degree_bound, n_folds) ==
    IF log_degree_bound < n_folds THEN <<>> ELSE <<log_degree_bound - n_folds>>

\* LineDomain::new(Coset::half_odds(log_size)), kept as its log size
LineDomainNew(log_size) == [log_size |-> log_size]

\* a doubling that leaves the domain as it is
DoubleSameSize(domain) == domain

\* LineDomain::double
Double(domain) == [log_size |-> domain.log_size - 1]

\* CommitmentSchemeVerifier::commit, the tree it records: the column log
\* sizes extended by the blowup factor
CommitTree(trees, log_sizes) ==
    Append(trees, [i \in 1..Len(log_sizes) |-> log_sizes[i] + LOG_BLOWUP_FACTOR])

(***************************************************************************)
(* Inputs.                                                                 *)
(***************************************************************************)
\* number of non-zero entries of a sequence of field elements
RECURSIVE NonZero(_)
NonZero(s) == IF s = <<>> THEN 0
              ELSE (IF Head(s) = 0 THEN 0 ELSE 1) + NonZero(Tail(s))

\* sampled-value tables of the expected layout
ValidTables ==
    { << <<t>>, << <<c[1]>>, <<c[2]>>, <<c[3]>>, <<c[4]>> >> >> :
        <<t, c>> \in { tc \in [1..3 -> ProofFelts] \X [1..4 -> ProofFelts] :
                        NonZero(tc[1] \o tc[2]) <= MaxNonZero } }

\* sampled-value tables of another layout: no tree, one tree, three or five
\* composition columns, a trace column of two values
InvalidTables ==
    { <<>>,
      << << <<1, 0, 0>> >> >>,
      << << <<0, 0, 0>> >>, << <<1>>, <<0>>, <<0>> >> >>,
      << << <<0, 0, 0>> >>, << <<0>>, <<0>>, <<0>>, <<0>>, <<1>> >> >>,
      << << <<0, 1>> >>, << <<0>>, <<0>>, <<0>>, <<0>> >> >> }

SampledTables == ValidTables \cup InvalidTables

\* StarkProof: the parts generate_fs_hints reads
Proofs ==
    [commitments : [1..2 -> ProofDigests],
     sampled_values : SampledTables,
     inner_layers : SeqsUpTo([commitment : ProofDigests], MaxLayers),
     last_layer_poly : SeqsUpTo(ProofFelts, MaxCoeffs),
     nonce : Nonces]

\* FibonacciAir
Airs == [log_size : 1..MaxLogSize]

(***************************************************************************)
(* State.                                                                  *)
(***************************************************************************)
VARIABLES
    pc,         \* position in generate_fs_hints / the caller
    air,        \* the AIR descriptor (input)
    proof,      \* the proof (input)
    channel,    \* the transcript handle (input, mutated in place)
    locals,     \* the local variables of generate_fs_hints
    outcome,    \* "running", "Ok", "Err" or "Panic"
    error,      \* the VerificationError kind when outcome = "Err"
    fs_output,  \* <<FSOutput>> once returned, <<>> otherwise
    pushed      \* the elements bitcoin_script_push emitted, in order

vars == <<pc, air, proof, channel, locals, outcome, error, fs_output, pushed>>

NoHint == [kind |-> "none", digest |-> 0]

InitLocals ==
    [commitment_scheme |-> <<>>,
     random_coeff |-> 0, random_coeff_hint |-> NoHint,
     oods_point |-> 0, oods_hint |-> NoHint,
     masked_points |-> <<>>, sampled_points |-> <<>>,
     trace_oods_values |-> <<>>, composition_oods_value |-> 0,
     composition_hint |-> <<>>,
     random_coeff2 |-> 0, random_coeff_hint2 |-> NoHint,
     bounds |-> <<>>, max_column_bound |-> 0,
     circle_poly_alpha |-> 0, circle_poly_alpha_hint |-> NoHint,
     layer_bound |-> 0, layer_domain |-> LineDomainNew(0),
     layer_index |-> 0,
     fri_commitment_and_folding_hints |-> <<>>, folding_alphas |-> <<>>,
     inner_layers |-> <<>>, last_layer_domain |-> LineDomainNew(0),
     pow_hint |-> NoHint,
     column_log_sizes |-> <<>>,
     queries |-> <<>>, queries_hints |-> NoHint]

Init ==
    /\ pc = "commit_trace"
    /\ air \in Airs
    /\ proof \in Proofs
    /\ channel = [digest |-> 0, transcript |-> <<>>]
    /\ locals = InitLocals
    /\ outcome = "running"
    /\ error = "none"
    /\ fs_output = <<>>
    /\ pushed = <<>>

\* return Err(kind)
ReturnErr(kind) ==
    /\ pc' = "done"
    /\ outcome' = "Err"
    /\ error' = kind

\* a panic (failed unwrap, assertion or index) unwinds the invocation
Panics ==
    /\ pc' = "done"
    /\ outcome' = "Panic"
    /\ error' = "none"

Continue(next) ==
    /\ pc' = next
    /\ UNCHANGED <<outcome, error>>

(***************************************************************************)
(* generate_fs_hints, step by step.                                        *)
(***************************************************************************)
\* the transcript part of lines 151-153, drawing ahead of the absorption
TraceCommitmentStepDrawFirst(ch, c) ==
    LET d == DrawFeltAndHints(ch, "random_coeff")
    IN  <<MixDigest(d[1], "commitments[0]", c), d[2], d[3]>>

\* the transcript part of lines 151-153: absorb the trace commitment, then
\* draw the first random coefficient
TraceCommitmentStep(ch, c) ==
    DrawFeltAndHints(MixDigest(ch, "commitments[0]", c), "random_coeff")

\* Read trace commitment.
CommitTrace ==
    /\ pc = "commit_trace"
    /\ LET r == TraceCommitmentStep(channel, proof.commitments[1])
       IN  /\ channel' = r[1]
           /\ locals' = [locals EXCEPT
                  !.commitment_scheme = CommitTree(@, AirColumnLogSizes(air)),
                  !.random_coeff = r[2],
                  !.random_coeff_hint = r[3]]
    /\ Continue("commit_composition")
    /\ UNCHANGED <<air, proof, fs_output, pushed>>

\* the transcript part of lines 156-163 with the absorption left out
CompositionCommitmentStepNoAbsorb(ch, c) == GetRandomPointWithHint(ch)

\* the transcript part of lines 156-163: absorb the composition commitment,
\* then draw the out-of-domain point
CompositionCommitmentStep(ch, c) ==
    GetRandomPointWithHint(MixDigest(ch, "commitments[1]", c))

\* Read composition polynomial commitment. Draw OODS point.
CommitComposition ==
    /\ pc = "commit_composition"
    /\ LET r == CompositionCommitmentStep(channel, proof.commitments[2])
       IN  /\ channel' = r[1]
           /\ locals' = [locals EXCEPT
                  !.commitment_scheme =
                      CommitTree(@, Repeat(CompositionLogDegreeBound(air), 4)),
                  !.oods_point = r[2],
                  !.oods_hint = r[3]]
    /\ Continue("sample_points")
    /\ UNCHANGED <<air, proof, fs_output, pushed>>

\* the seven assert_eq! of lines 176-183
AssertionsHold(sampled_points, masked_points, oods_point) ==
    /\ \A i \in 1..3 : sampled_points[1][1][i] = masked_points[1][1][i]
    /\ \A j \in 1..4 : sampled_points[2][j][1] = oods_point

\* lines 166-183 with the second tree filled with the second mask point
\* instead of the out-of-domain point
SamplePointsShifted ==
    /\ pc = "sample_points"
    /\ LET trace_sample_points == MaskPoints(locals.oods_point)
           sampled_points == <<Flatten(trace_sample_points),
                               Repeat(<<trace_sample_points[1][1][2]>>, 4)>>
       IN  /\ locals' = [locals EXCEPT
                  !.masked_points = trace_sample_points,
                  !.sampled_points = sampled_points]
           /\ IF AssertionsHold(sampled_points, trace_sample_points, locals.oods_point)
              THEN Continue("sampled_values")
              ELSE Panics
    /\ UNCHANGED <<air, proof, channel, fs_output, pushed>>

\* Get mask sample points relative to oods point; build the two trees.
SamplePoints ==
    /\ pc = "sample_points"
    /\ LET trace_sample_points == MaskPoints(locals.oods_point)
           sampled_points == <<Flatten(trace_sample_points),
                               Repeat(<<locals.oods_point>>, 4)>>
       IN  /\ locals' = [locals EXCEPT
                  !.masked_points = trace_sample_points,
                  !.sampled_points = sampled_points]
           /\ IF AssertionsHold(sampled_points, trace_sample_points, locals.oods_point)
              THEN Continue("sampled_values")
              ELSE Panics
    /\ UNCHANGED <<air, proof, channel, fs_output, pushed>>

\* sampled_values_to_mask(..).map_err(..).unwrap()
SampledValues ==
    /\ pc = "sampled_values"
    /\ IF ShapeOk(proof.sampled_values)
       THEN /\ LET r == SampledValuesToMask(proof.sampled_values)
               IN  locals' = [locals EXCEPT
                       !.trace_oods_values = r[1],
                       !.composition_oods_value = r[2]]
            /\ Continue("oods_check")
       ELSE /\ Panics
            /\ UNCHANGED locals
    /\ UNCHANGED <<air, proof, channel, fs_output, pushed>>

\* the test of lines 195-197 made with the coefficient slot that the draw
\* after the sampled values fills
OodsCheckFailsOtherCoeff(l) ==
    l.composition_oods_value
        # EvalCompositionPolynomialAtPoint(l.oods_point, l.trace_oods_values,
                                           l.random_coeff2)

\* the test of lines 195-197: random_coeff is the draw of line 153
OodsCheckFails(l) ==
    l.composition_oods_value
        # EvalCompositionPolynomialAtPoint(l.oods_point, l.trace_oods_values,
                                           l.random_coeff)

\* CompositionHint { constraint_eval_quotients_by_mask: [boundary, step] }
CompositionHint(point, trace_oods_values) ==
    [kind |-> "CompositionHint",
     constraint_eval_quotients_by_mask |->
        <<BoundaryQuotient(point, SubSeq(trace_oods_values[1][1], 1, 1)),
          StepQuotient(point, trace_oods_values[1][1])>>]

\* The composition value check, then the composition hint.
OodsCheck ==
    /\ pc = "oods_check"
    /\ IF OodsCheckFails(locals)
       THEN /\ ReturnErr("OodsNotMatching")
            /\ UNCHANGED locals
       ELSE /\ locals' = [locals EXCEPT !.composition_hint =
                    CompositionHint(locals.oods_point, locals.trace_oods_values)]
            /\ Continue("mix_sampled")
    /\ UNCHANGED <<air, proof, channel, fs_output, pushed>>

\* TreeVec::flatten_cols of the sampled values: trees, then columns, then values
FlattenCols(tree_vec) == Flatten(Flatten(tree_vec))

\* channel.mix_felts(sampled values); draw the second random coefficient
MixSampledValues ==
    /\ pc = "mix_sampled"
    /\ LET r == DrawFeltAndHints(
                    MixFelts(channel, "sampled_values", FlattenCols(proof.sampled_values)),
                    "random_coeff2")
       IN  /\ channel' = r[1]
           /\ locals' = [locals EXCEPT
                  !.random_coeff2 = r[2],
                  !.random_coeff_hint2 = r[3]]
    /\ Continue("bounds")
    /\ UNCHANGED <<air, proof, fs_output, pushed>>

\* lines 225-236 without the reversal: the bounds stay in ascending order
BoundsAscending(column_log_sizes, sampled_points) ==
    Dedup(Sorted(FlattenCols(
        [t \in 1..Len(column_log_sizes) |->
            [c \in 1..Len(column_log_sizes[t]) |->
                Repeat(column_log_sizes[t][c] - LOG_BLOWUP_FACTOR,
                       Len(sampled_points[t][c]))]])))

\* lines 225-236: one degree bound per sampled point of every committed
\* column, flattened, sorted, reversed, deduplicated
Bounds(column_log_sizes, sampled_points) ==
    Dedup(Rev(Sorted(FlattenCols(
        [t \in 1..Len(column_log_sizes) |->
            [c \in 1..Len(column_log_sizes[t]) |->
                Repeat(column_log_sizes[t][c] - LOG_BLOWUP_FACTOR,
                       Len(sampled_points[t][c]))]]))))

\* line 249 without the fold from the circle to the line
FirstLayerBoundUnfolded(max_column_bound) == max_column_bound

\* line 249: the degree bound of the first FRI layer
FirstLayerBound(max_column_bound) == FoldToLine(max_column_bound)

\* Bounds, the circle-to-line folding challenge, the first layer's bound and domain.
ComputeBounds ==
    /\ pc = "bounds"
    /\ LET bounds == Bounds(locals.commitment_scheme, locals.sampled_points)
           r == DrawFeltAndHints(channel, "circle_poly_alpha")
           layer_bound == FirstLayerBound(bounds[1])
       IN  /\ channel' = r[1]
           /\ locals' = [locals EXCEPT
                  !.bounds = bounds,
                  !.max_column_bound = bounds[1],
                  !.circle_poly_alpha = r[2],
                  !.circle_poly_alpha_hint = r[3],
                  !.layer_bound = layer_bound,
                  !.layer_domain = LineDomainNew(layer_bound + LOG_BLOWUP_FACTOR)]
    /\ Continue("fri_loop")
    /\ UNCHANGED <<air, proof, fs_output, pushed>>

\* the transcript part of lines 264-266 handing out the hint of the digest
\* before the layer's commitment was absorbed
LayerStepStaleHint(ch, commitment) ==
    LET r == DrawFeltAndHints(MixDigest(ch, "layer_commitment", commitment),
                              "folding_alpha")
    IN  <<r[1], r[2], DrawHints(ch.digest)>>

\* the transcript part of lines 264-266
LayerStep(ch, commitment) ==
    DrawFeltAndHints(MixDigest(ch, "layer_commitment", commitment), "folding_alpha")

\* One iteration of the loop over proof.commitment_scheme_proof.fri_proof.inner_layers.
FriLayer ==
    /\ pc = "fri_loop"
    /\ locals.layer_index < Len(proof.inner_layers)
    /\ LET layer == proof.inner_layers[locals.layer_index + 1]
           r == LayerStep(channel, layer.commitment)
           folded == Fold(locals.layer_bound, FOLD_STEP)
           pushed_locals ==
               [locals EXCEPT
                  !.folding_alphas = Append(@, r[2]),
                  !.fri_commitment_and_folding_hints =
                      Append(@, <<layer.commitment, r[3]>>),
                  !.inner_layers = Append(@,
                      [degree_bound |-> locals.layer_bound,
                       domain |-> locals.layer_domain,
                       folding_alpha |-> r[2],
                       layer_index |-> locals.layer_index])]
       IN  /\ channel' = r[1]
           /\ IF folded = <<>>
              THEN /\ locals' = pushed_locals
                   /\ ReturnErr("InvalidNumFriLayers")
              ELSE /\ locals' = [pushed_locals EXCEPT
                          !.layer_bound = folded[1],
                          !.layer_domain = Double(locals.layer_domain),
                          !.layer_index = @ + 1]
                   /\ Continue("fri_loop")
    /\ UNCHANGED <<air, proof, fs_output, pushed>>

\* the test of lines 285 with the comparison weakened
NumLayersWrongOnlyBelow(layer_bound) == layer_bound < LOG_LAST_LAYER_DEGREE_BOUND

\* the test of line 285
NumLayersWrong(layer_bound) == layer_bound # LOG_LAST_LAYER_DEGREE_BOUND

\* After the loop: the running bound must be the last-layer bound.
CheckNumLayers ==
    /\ pc = "fri_loop"
    /\ locals.layer_index = Len(proof.inner_layers)
    /\ IF NumLayersWrong(locals.layer_bound)
       THEN /\ ReturnErr("InvalidNumFriLayers")
            /\ UNCHANGED locals
       ELSE /\ locals' = [locals EXCEPT !.last_layer_domain = locals.layer_domain]
            /\ Continue("last_layer")
    /\ UNCHANGED <<air, proof, channel, fs_output, pushed>>

\* the test of line 294
LastLayerTooLong(last_layer_poly) ==
    Len(last_layer_poly) > Pow2(LOG_LAST_LAYER_DEGREE_BOUND)

\* lines 292-300 with the coefficients absorbed ahead of the degree check
LastLayerMixFirst ==
    /\ pc = "last_layer"
    /\ channel' = MixFelts(channel, "last_layer_poly", proof.last_layer_poly)
    /\ IF LastLayerTooLong(proof.last_layer_poly)
       THEN ReturnErr("LastLayerDegreeInvalid")
       ELSE Continue("pow")
    /\ UNCHANGED <<air, proof, locals, fs_output, pushed>>

\* The last-layer degree check, then channel.mix_felts(&last_layer_poly).
LastLayer ==
    /\ pc = "last_layer"
    /\ IF LastLayerTooLong(proof.last_layer_poly)
       THEN /\ ReturnErr("LastLayerDegreeInvalid")
            /\ UNCHANGED channel
       ELSE /\ channel' = MixFelts(channel, "last_layer_poly", proof.last_layer_poly)
            /\ Continue("pow")
    /\ UNCHANGED <<air, proof, locals, fs_output, pushed>>

\* lines 302-310 with the hint built after the proof-of-work check, from the
\* digest the check leaves
ProofOfWorkStepHintAfter ==
    /\ pc = "pow"
    /\ IF PowValid(channel.digest, proof.nonce)
       THEN /\ channel' = MixNonce(channel, proof.nonce)
            /\ locals' = [locals EXCEPT !.pow_hint =
                    PoWHint(channel'.digest, proof.nonce, PROOF_OF_WORK_BITS)]
            /\ Continue("queries")
       ELSE /\ ReturnErr("ProofOfWork")
            /\ UNCHANGED <<channel, locals>>
    /\ UNCHANGED <<air, proof, fs_output, pushed>>

\* PoWHint::new(channel.digest, nonce, bits); ProofOfWork::verify(channel, proof_of_work)?
ProofOfWorkStep ==
    /\ pc = "pow"
    /\ locals' = [locals EXCEPT !.pow_hint =
            PoWHint(channel.digest, proof.nonce, PROOF_OF_WORK_BITS)]
    /\ IF PowValid(channel.digest, proof.nonce)
       THEN /\ channel' = MixNonce(channel, proof.nonce)
            /\ Continue("queries")
       ELSE /\ ReturnErr("ProofOfWork")
            /\ UNCHANGED channel
    /\ UNCHANGED <<air, proof, fs_output, pushed>>

\* lines 312-316 without the blowup factor added back
ColumnLogSizesNoBlowup(bounds) == Dedup(bounds)

\* lines 312-316: bounds, deduplicated again, plus the blowup factor
ColumnLogSizes(bounds) ==
    LET d == Dedup(bounds)
    IN  [i \in 1..Len(d) |-> d[i] + LOG_BLOWUP_FACTOR]

\* column_log_sizes; Queries::generate_with_hints(channel, column_log_sizes[0], n_queries)
DrawQueries ==
    /\ pc = "queries"
    /\ LET column_log_sizes == ColumnLogSizes(locals.bounds)
           r == GenerateWithHints(channel, column_log_sizes[1], N_QUERIES)
       IN  /\ channel' = r[1]
           /\ locals' = [locals EXCEPT
                  !.column_log_sizes = column_log_sizes,
                  !.queries = r[2],
                  !.queries_hints = r[3]]
    /\ Continue("assemble")
    /\ UNCHANGED <<air, proof, fs_output, pushed>>

\* lines 321-343 with every composition value read from entry 0 of its
\* column's tree position 0
FiatShamirHintsFirstColumn(pr, l) ==
    LET sample_values == pr.sampled_values
    IN  [commitments |-> <<pr.commitments[1], pr.commitments[2]>>,
         random_coeff_hint |-> l.random_coeff_hint,
         oods_hint |-> l.oods_hint,
         trace_oods_values |-> <<sample_values[1][1][1],
                                 sample_values[1][1][2],
                                 sample_values[1][1][3]>>,
         composition_oods_values |-> <<sample_values[2][1][1],
                                       sample_values[2][1][1],
                                       sample_values[2][1][1],
                                       sample_values[2][1][1]>>,
         composition_hint |-> l.composition_hint,
         random_coeff_hint2 |-> l.random_coeff_hint2,
         circle_poly_alpha_hint |-> l.circle_poly_alpha_hint,
         fri_commitment_and_folding_hints |-> l.fri_commitment_and_folding_hints,
         last_layer |-> pr.last_layer_poly[1],
         pow_hint |-> l.pow_hint,
         queries_hints |-> l.queries_hints]

\* FiatShamirHints { .. } of lines 321-343 (last_layer needs one coefficient)
FiatShamirHints(pr, l) ==
    LET sample_values == pr.sampled_values
    IN  [commitments |-> <<pr.commitments[1], pr.commitments[2]>>,
         random_coeff_hint |-> l.random_coeff_hint,
         oods_hint |-> l.oods_hint,
         trace_oods_values |-> <<sample_values[1][1][1],
                                 sample_values[1][1][2],
                                 sample_values[1][1][3]>>,
         composition_oods_values |-> <<sample_values[2][1][1],
                                       sample_values[2][2][1],
                                       sample_values[2][3][1],
                                       sample_values[2][4][1]>>,
         composition_hint |-> l.composition_hint,
         random_coeff_hint2 |-> l.random_coeff_hint2,
         circle_poly_alpha_hint |-> l.circle_poly_alpha_hint,
         fri_commitment_and_folding_hints |-> l.fri_commitment_and_folding_hints,
         last_layer |-> pr.last_layer_poly[1],
         pow_hint |-> l.pow_hint,
         queries_hints |-> l.queries_hints]

\* lines 345-357 with random_coeff taken from the draw of line 153 instead
\* of the draw of line 223 that shadows it
FriInputFirstCoeff(pr, l) ==
    [fri_log_blowup_factor |-> LOG_BLOWUP_FACTOR,
     max_column_log_degree_bound |-> l.max_column_bound,
     column_log_sizes |-> l.column_log_sizes,
     commitment_scheme_column_log_sizes |-> l.commitment_scheme,
     sampled_points |-> l.sampled_points,
     sample_values |-> pr.sampled_values,
     random_coeff |-> l.random_coeff,
     circle_poly_alpha |-> l.circle_poly_alpha,
     folding_alphas |-> l.folding_alphas,
     last_layer_domain |-> l.last_layer_domain,
     queries |-> l.queries]

\* FriInput { .. } of lines 345-357
FriInput(pr, l) ==
    [fri_log_blowup_factor |-> LOG_BLOWUP_FACTOR,
     max_column_log_degree_bound |-> l.max_column_bound,
     column_log_sizes |-> l.column_log_sizes,
     commitment_scheme_column_log_sizes |-> l.commitment_scheme,
     sampled_points |-> l.sampled_points,
     sample_values |-> pr.sampled_values,
     random_coeff |-> l.random_coeff2,
     circle_poly_alpha |-> l.circle_poly_alpha,
     folding_alphas |-> l.folding_alphas,
     last_layer_domain |-> l.last_layer_domain,
     queries |-> l.queries]

\* Assemble FiatShamirHints and FriInput; last_layer_poly.to_vec()[0] panics
\* on a polynomial without coefficients.
Assemble ==
    /\ pc = "assemble"
    /\ IF Len(proof.last_layer_poly) = 0
       THEN /\ Panics
            /\ UNCHANGED fs_output
       ELSE /\ fs_output' = <<[fiat_shamir_hints |-> FiatShamirHints(proof, locals),
                               fri_input |-> FriInput(proof, locals)]>>
            /\ pc' = "returned"
            /\ outcome' = "Ok"
            /\ error' = "none"
    /\ UNCHANGED <<air, proof, channel, locals, pushed>>

(***************************************************************************)
(* impl Pushable for &FiatShamirHints                                      *)
(***************************************************************************)
\* one element handed to the builder: the field it comes from, its index in
\* that field, and its value
Elem(field, index, value) == [field |-> field, index |-> index, value |-> value]

RECURSIVE PushLayers(_, _, _)
\* lines 82-85: commitment, then hint, for every layer in order; k is the
\* index of the layer at the head of pairs
PushLayers(builder, pairs, k) ==
    IF pairs = <<>> THEN builder
    ELSE PushLayers(
            builder \o <<Elem("fri_commitment", k, Head(pairs)[1]),
                         Elem("fri_folding_hint", k, Head(pairs)[2])>>,
            Tail(pairs), k + 1)

\* lines 69-88 with the two commitments pushed ahead of the first hint
BitcoinScriptPushSwapped(h) ==
    LET b1 == <<Elem("commitments", 0, h.commitments[1]),
                Elem("commitments", 1, h.commitments[2]),
                Elem("random_coeff_hint", 0, h.random_coeff_hint),
                Elem("oods_hint", 0, h.oods_hint)>>
        b2 == b1 \o [i \in 1..3 |-> Elem("trace_oods_values", i - 1, h.trace_oods_values[i])]
        b3 == b2 \o [i \in 1..4 |->
                        Elem("composition_oods_values", i - 1, h.composition_oods_values[i])]
        b4 == b3 \o <<Elem("composition_hint", 0, h.composition_hint),
                      Elem("random_coeff_hint2", 0, h.random_coeff_hint2),
                      Elem("circle_poly_alpha_hint", 0, h.circle_poly_alpha_hint)>>
        b5 == PushLayers(b4, h.fri_commitment_and_folding_hints, 0)
    IN  b5 \o <<Elem("last_layer", 0, h.last_layer),
                Elem("pow_hint", 0, h.pow_hint),
                Elem("queries_hints", 0, h.queries_hints)>>

\* bitcoin_script_push, lines 68-90: the builder after every push
BitcoinScriptPush(h) ==
    LET b1 == <<Elem("commitments", 0, h.commitments[1]),
                Elem("random_coeff_hint", 0, h.random_coeff_hint),
                Elem("commitments", 1, h.commitments[2]),
                Elem("oods_hint", 0, h.oods_hint)>>
        b2 == b1 \o [i \in 1..3 |-> Elem("trace_oods_values", i - 1, h.trace_oods_values[i])]
        b3 == b2 \o [i \in 1..4 |->
                        Elem("composition_oods_values", i - 1, h.composition_oods_values[i])]
        b4 == b3 \o <<Elem("composition_hint", 0, h.composition_hint),
                      Elem("random_coeff_hint2", 0, h.random_coeff_hint2),
                      Elem("circle_poly_alpha_hint", 0, h.circle_poly_alpha_hint)>>
        b5 == PushLayers(b4, h.fri_commitment_and_folding_hints, 0)
    IN  b5 \o <<Elem("last_layer", 0, h.last_layer),
                Elem("pow_hint", 0, h.pow_hint),
                Elem("queries_hints", 0, h.queries_hints)>>

\* The caller serializes the bundle it received.
Push ==
    /\ pc = "returned"
    /\ pushed' = BitcoinScriptPush(fs_output[1].fiat_shamir_hints)
    /\ pc' = "done"
    /\ UNCHANGED <<air, proof, channel, locals, outcome, error, fs_output>>

Next ==
    \/ CommitTrace
    \/ CommitComposition
    \/ SamplePoints
    \/ SampledValues
    \/ OodsCheck
    \/ MixSampledValues
    \/ ComputeBounds
    \/ FriLayer
    \/ CheckNumLayers
    \/ LastLayer
    \/ ProofOfWorkStep
    \/ DrawQueries
    \/ Assemble
    \/ Push

Spec == Init /\ [][Next]_vars

\* the invocation has ended
Finished == outcome # "running"

TypeOK ==
    /\ pc \in {"commit_trace", "commit_composition", "sample_points", "sampled_values",
               "oods_check", "mix_sampled", "bounds", "fri_loop", "last_layer", "pow",
               "queries", "assemble", "returned", "done"}
    /\ outcome \in {"running", "Ok", "Err", "Panic"}
    /\ channel.digest \in BWSSha256Hash
    /\ (outcome = "Ok") = (fs_output # <<>>)

(***************************************************************************)
(* Properties.                                                             *)
(***************************************************************************)
\* positions of the transcript operations with a given role
At(what) == {i \in 1..Len(channel.transcript) : channel.transcript[i].what = what}

\* some operation with role a precedes position i
Before(a, i) == \E j \in At(a) : j < i

\* the sampled-value table has the expected layout and the run got past the
\* composition value check
PassedComposition ==
    /\ ShapeOk(proof.sampled_values)
    /\ pc \notin {"commit_trace", "commit_composition", "sample_points",
                  "sampled_values", "oods_check"}
    /\ ~(outcome = "Err" /\ error = "OodsNotMatching")

\* the number of inner layers that folds the line bound of the largest
\* column down to the last-layer bound
RequiredLayers ==
    (FoldToLine(CompositionLogDegreeBound(air)) - LOG_LAST_LAYER_DEGREE_BOUND)
        \div FOLD_STEP

\* C1: every draw comes after the absorption it depends on: the first random
\* coefficient after the trace commitment, the out-of-domain point after the
\* composition commitment, the second random coefficient after the sampled
\* values, the folding challenge of layer k right after the commitment of
\* layer k (and that commitment after the challenge of layer k-1), the query
\* indices after the last-layer coefficients and the proof-of-work step.
C1_AbsorbBeforeDraw ==
    LET t == channel.transcript
        layers == {i \in 1..Len(t) : t[i].what = "layer_commitment"}
    IN  \A i \in 1..Len(t) :
          /\ t[i].what = "random_coeff" =>
                \E j \in At("commitments[0]") :
                    j < i /\ t[j].data = proof.commitments[1]
          /\ t[i].what = "oods_point" =>
                \E j \in At("commitments[1]") :
                    j < i /\ t[j].data = proof.commitments[2]
          /\ t[i].what = "random_coeff2" =>
                \E j \in At("sampled_values") :
                    j < i /\ t[j].data = FlattenCols(proof.sampled_values)
          /\ t[i].what = "circle_poly_alpha" => Before("random_coeff2", i)
          /\ t[i].what = "folding_alpha" =>
                /\ i > 1
                /\ t[i - 1].what = "layer_commitment"
                /\ LET k == Cardinality({j \in layers : j < i})
                   IN  t[i - 1].data = proof.inner_layers[k].commitment
          /\ t[i].what = "layer_commitment" =>
                /\ i > 1
                /\ t[i - 1].what \in {"circle_poly_alpha", "folding_alpha"}
          /\ t[i].what = "queries" =>
                \E j \in At("last_layer_poly") : \E k \in At("nonce") :
                    /\ j < k /\ k < i
                    /\ t[j].data = proof.last_layer_poly
                    /\ \A m \in layers : m < j

\* C1 witness: an accepted run with two layers has drawn its queries
C1_Witness ==
    /\ outcome = "Ok"
    /\ Len(proof.inner_layers) = 2
    /\ At("queries") # {}
    /\ Cardinality(At("folding_alpha")) = 2

\* the tags <<field, index>> of the elements a bundle with n layers must
\* emit, in wire order
ExpectedTags(n) ==
    << <<"commitments", 0>>, <<"random_coeff_hint", 0>>, <<"commitments", 1>>,
       <<"oods_hint", 0>> >>
    \o [i \in 1..3 |-> <<"trace_oods_values", i - 1>>]
    \o [i \in 1..4 |-> <<"composition_oods_values", i - 1>>]
    \o << <<"composition_hint", 0>>, <<"random_coeff_hint2", 0>>,
          <<"circle_poly_alpha_hint", 0>> >>
    \o [i \in 1..(2 * n) |->
          IF i % 2 = 1 THEN <<"fri_commitment", (i - 1) \div 2>>
          ELSE <<"fri_folding_hint", (i - 2) \div 2>>]
    \o << <<"last_layer", 0>>, <<"pow_hint", 0>>, <<"queries_hints", 0>> >>

\* the element of bundle h a tag names
FieldValue(h, field, index) ==
    CASE field = "commitments" -> h.commitments[index + 1]
      [] field = "random_coeff_hint" -> h.random_coeff_hint
      [] field = "oods_hint" -> h.oods_hint
      [] field = "trace_oods_values" -> h.trace_oods_values[index + 1]
      [] field = "composition_oods_values" -> h.composition_oods_values[index + 1]
      [] field = "composition_hint" -> h.composition_hint
      [] field = "random_coeff_hint2" -> h.random_coeff_hint2
      [] field = "circle_poly_alpha_hint" -> h.circle_poly_alpha_hint
      [] field = "fri_commitment" -> h.fri_commitment_and_folding_hints[index + 1][1]
      [] field = "fri_folding_hint" -> h.fri_commitment_and_folding_hints[index + 1][2]
      [] field = "last_layer" -> h.last_layer
      [] field = "pow_hint" -> h.pow_hint
      [] field = "queries_hints" -> h.queries_hints

\* C2: the serialization of a bundle with n layers emits exactly the 17 + 2n
\* elements of the wire order, each once, each with the bundle's value.
C2_WireOrder ==
    (pc = "done" /\ outcome = "Ok") =>
        LET h == fs_output[1].fiat_shamir_hints
            n == Len(h.fri_commitment_and_folding_hints)
        IN  /\ Len(pushed) = 17 + 2 * n
            /\ [i \in 1..Len(pushed) |-> <<pushed[i].field, pushed[i].index>>]
                 = ExpectedTags(n)
            /\ \A i \in 1..Len(pushed) :
                 pushed[i].value = FieldValue(h, pushed[i].field, pushed[i].index)

\* C2 witness: a bundle with two layers and distinct layer commitments was serialized
C2_Witness ==
    /\ pc = "done"
    /\ outcome = "Ok"
    /\ Len(pushed) = 21
    /\ proof.inner_layers[1] # proof.inner_layers[2]
    /\ proof.commitments[1] # proof.commitments[2]

\* the first random coefficient, recomputed from the digest the draw that
\* follows the trace commitment was made from
FirstRandomCoeff ==
    LET i == CHOOSE i \in At("random_coeff") : TRUE
    IN  DrawValue(channel.transcript[i].data)

\* the composition value the proof's four composition entries stand for
ExtractedComposition ==
    LET sv == proof.sampled_values
    IN  EvalFromPartialEvals(<<sv[2][1][1], sv[2][2][1], sv[2][3][1], sv[2][4][1]>>)

\* the composition value the AIR gives for the proof's trace mask values, the
\* out-of-domain point and the first random coefficient
RecomputedComposition ==
    EvalCompositionPolynomialAtPoint(locals.oods_point, <<proof.sampled_values[1]>>,
                                     FirstRandomCoeff)

Failed(kind) == outcome = "Err" /\ error = kind

\* C3 as claimed: the checks apply in the order shape, composition value,
\* layer count, last-layer count, proof of work; a finished run returns the
\* error of the earliest violated check, and no FSOutput if any is violated.
C3_Claim ==
    Finished =>
        LET shape == ShapeOk(proof.sampled_values)
            oods == shape /\ ExtractedComposition = RecomputedComposition
            layers == oods /\ Len(proof.inner_layers) = RequiredLayers
            last == layers /\ ~LastLayerTooLong(proof.last_layer_poly)
            pow == last /\ PowValid(locals.pow_hint.digest, proof.nonce)
        IN  /\ ~shape => Failed("InvalidStructure")
            /\ (shape /\ ~oods) => Failed("OodsNotMatching")
            /\ (oods /\ ~layers) => Failed("InvalidNumFriLayers")
            /\ (layers /\ ~last) => Failed("LastLayerDegreeInvalid")
            /\ (last /\ ~pow) => Failed("ProofOfWork")
            /\ ~pow => fs_output = <<>>

\* C4 as claimed: a sampled-value table of another layout makes the
\* invocation return InvalidStructure, and every invocation ends by
\* returning Ok or a typed error.
C4_Claim ==
    Finished =>
        /\ outcome \in {"Ok", "Err"}
        /\ ~ShapeOk(proof.sampled_values) => Failed("InvalidStructure")

\* C5: with a table of the expected layout, the run fails with
\* OodsNotMatching exactly when the proof's composition value differs from
\* the AIR's value for the trace mask values, the out-of-domain point and
\* the coefficient drawn right after the trace commitment.
C5_OodsExactlyOnMismatch ==
    (/\ ShapeOk(proof.sampled_values)
     /\ pc \notin {"commit_trace", "commit_composition", "sample_points",
                   "sampled_values", "oods_check"})
        => (Failed("OodsNotMatching")
              <=> ExtractedComposition # RecomputedComposition)

\* C5 witness: a run failed with OodsNotMatching where the coefficient counts
C5_Witness ==
    /\ Failed("OodsNotMatching")
    /\ FirstRandomCoeff # 0
    /\ StepQuotient(locals.oods_point, proof.sampled_values[1][1]) # 0

\* C6 as claimed: the number of pairs of an accepted proof is
\* (max_column_log_degree_bound - log_last_layer_degree_bound) / fold_step.
C6_Claim ==
    outcome = "Ok" =>
        LET out == fs_output[1]
        IN  Len(out.fiat_shamir_hints.fri_commitment_and_folding_hints)
              = (out.fri_input.max_column_log_degree_bound
                   - LOG_LAST_LAYER_DEGREE_BOUND) \div FOLD_STEP

\* C6 amended: the circle-to-line fold ahead of the loop takes one step, so
\* the number of pairs of an accepted proof is
\* (max_column_log_degree_bound - 1 - log_last_layer_degree_bound) / fold_step.
C6_LayerCount ==
    outcome = "Ok" =>
        LET out == fs_output[1]
        IN  Len(out.fiat_shamir_hints.fri_commitment_and_folding_hints)
              = (out.fri_input.max_column_log_degree_bound
                   - CIRCLE_TO_LINE_FOLD_STEP
                   - LOG_LAST_LAYER_DEGREE_BOUND) \div FOLD_STEP

\* C6 witness: an accepted proof of a trace of log size 2 carries two pairs
C6_Witness ==
    /\ outcome = "Ok"
    /\ fs_output[1].fri_input.max_column_log_degree_bound = 3
    /\ Len(fs_output[1].fiat_shamir_hints.fri_commitment_and_folding_hints) = 2

\* C7: a proof past the shape and composition checks with another number of
\* inner layers than required never gets beyond the layer checks and ends in
\* InvalidNumFriLayers: with too few layers after the loop, the bound being
\* above the last-layer bound; with too many inside the loop, the fold being
\* impossible, or with the bound below the last-layer bound. Every accepted
\* proof has the required number, so dropping or repeating one of its layers
\* gives such a proof.
C7_WrongLayerCountRejected ==
    /\ (PassedComposition /\ Len(proof.inner_layers) # RequiredLayers) =>
          /\ pc \in {"mix_sampled", "bounds", "fri_loop", "done"}
          /\ pc = "done" =>
                /\ Failed("InvalidNumFriLayers")
                /\ Len(proof.inner_layers) < RequiredLayers =>
                      /\ locals.layer_index = Len(proof.inner_layers)
                      /\ locals.layer_bound # LOG_LAST_LAYER_DEGREE_BOUND
                /\ Len(proof.inner_layers) > RequiredLayers =>
                      \/ /\ locals.layer_index < Len(proof.inner_layers)
                         /\ Fold(locals.layer_bound, FOLD_STEP) = <<>>
                      \/ locals.layer_bound < LOG_LAST_LAYER_DEGREE_BOUND
    /\ outcome = "Ok" => Len(proof.inner_layers) = RequiredLayers

\* C7 witness: a proof with one layer too many was rejected inside the loop
C7_Witness ==
    /\ PassedComposition
    /\ Len(proof.inner_layers) = RequiredLayers + 1
    /\ Failed("InvalidNumFriLayers")
    /\ locals.layer_index < Len(proof.inner_layers)

\* the run got past the layer-count checks
PassedLayers ==
    \/ pc \in {"pow", "queries", "assemble", "returned"}
    \/ /\ pc = "done"
       /\ \/ outcome = "Ok"
          \/ Failed("LastLayerDegreeInvalid")
          \/ Failed("ProofOfWork")
          \/ outcome = "Panic" /\ ShapeOk(proof.sampled_values)

\* C8 as claimed: past the earlier checks, the run fails with
\* LastLayerDegreeInvalid exactly when the last layer has more than
\* 2^log_last_layer_degree_bound coefficients, and with any smaller count
\* and a valid nonce it ends in Ok.
C8_Claim ==
    PassedLayers =>
        /\ Failed("LastLayerDegreeInvalid")
              <=> Len(proof.last_layer_poly) > Pow2(LOG_LAST_LAYER_DEGREE_BOUND)
        /\ (/\ pc = "done"
            /\ Len(proof.last_layer_poly) <= Pow2(LOG_LAST_LAYER_DEGREE_BOUND)
            /\ PowValid(locals.pow_hint.digest, proof.nonce))
              => outcome = "Ok"

StrictlyDecreasing(s) == \A i \in 1..(Len(s) - 1) : s[i] > s[i + 1]

\* C9: the column_log_sizes of every FSOutput is strictly decreasing (hence
\* without duplicates), though three trace bounds and four composition
\* bounds coincide.
C9_ColumnLogSizesDecreasing ==
    outcome = "Ok" =>
        LET sizes == fs_output[1].fri_input.column_log_sizes
        IN  /\ StrictlyDecreasing(sizes)
            /\ \A i, j \in 1..Len(sizes) : i # j => sizes[i] # sizes[j]
            /\ {sizes[i] : i \in 1..Len(sizes)}
                 = {x + LOG_BLOWUP_FACTOR :
                      x \in {air.log_size, CompositionLogDegreeBound(air)}}

\* C9 witness: an accepted run whose two trees hold columns of two sizes
C9_Witness ==
    /\ outcome = "Ok"
    /\ Len(fs_output[1].fri_input.column_log_sizes) = 2
    /\ Len(fs_output[1].fri_input.commitment_scheme_column_log_sizes[2]) = 4

IsPrefix(s, t) == Len(s) <= Len(t) /\ SubSeq(t, 1, Len(s)) = s

\* once the first check is reached, both commitments were absorbed and the
\* first coefficient and the out-of-domain point drawn, in this order
BothCommitmentsAbsorbed ==
    pc \notin {"commit_trace", "commit_composition"} =>
        LET t == channel.transcript
        IN  /\ Len(t) >= 4
            /\ t[1] = Event("mix_digest", "commitments[0]", proof.commitments[1])
            /\ t[2].op = "draw_felt" /\ t[2].what = "random_coeff"
            /\ t[3] = Event("mix_digest", "commitments[1]", proof.commitments[2])
            /\ t[4].op = "draw_point" /\ t[4].what = "oods_point"

\* C10: at every check and at every outcome the transcript holds the two
\* commitment absorptions and the two draws that follow them, and no step
\* ever takes an operation back: the transcript only grows.
C10_TranscriptMutated ==
    /\ []BothCommitmentsAbsorbed
    /\ [][IsPrefix(channel.transcript, channel'.transcript)]_vars

\* C10 witness: a failed run has left the four operations in the transcript
C10_Witness ==
    /\ outcome = "Err"
    /\ Len(channel.transcript) >= 4
    /\ channel.digest # 0

RECURSIVE Replay(_, _)
\* an independent replay: the channel reached from ch by performing the
\* operations ops (absorbing the same data, drawing at the same places)
Replay(ch, ops) ==
    IF ops = <<>> THEN ch
    ELSE LET e == Head(ops)
             next == CASE e.op = "mix_digest" -> MixDigest(ch, e.what, e.data)
                       [] e.op = "mix_felts" -> MixFelts(ch, e.what, e.data)
                       [] e.op = "mix_nonce" -> MixNonce(ch, e.data)
                       [] e.op = "draw_felt" -> DrawFeltAndHints(ch, e.what)[1]
                       [] e.op = "draw_point" -> GetRandomPointWithHint(ch)[1]
                       [] e.op = "draw_queries" -> GenerateWithHints(ch, 0, 0)[1]
         IN  Replay(next, Tail(ops))

\* the replayed channel on which operation i of the transcript is performed
ReplayedBefore(i) ==
    Replay([digest |-> 0, transcript |-> <<>>], SubSeq(channel.transcript, 1, i - 1))

\* the position of the only operation with role what
Pos(what) == CHOOSE i \in At(what) : TRUE

\* the position of the k-th folding challenge draw
FoldPos(k) ==
    CHOOSE i \in At("folding_alpha") :
        Cardinality({j \in At("folding_alpha") : j <= i}) = k

\* C11: in every FSOutput each challenge is the value a replay of the
\* transcript draws at the same position: random_coeff right after the
\* sampled values are absorbed, circle_poly_alpha as the next draw,
\* folding_alphas[k] right after the k-th layer commitment, queries after the
\* last-layer coefficients and the proof-of-work nonce; each hint is the
\* hint of the draw at its position.
C11_ReplayAgrees ==
    outcome = "Ok" =>
        LET t == channel.transcript
            fi == fs_output[1].fri_input
            h == fs_output[1].fiat_shamir_hints
            rc1 == Pos("random_coeff")
            pt == Pos("oods_point")
            rc2 == Pos("random_coeff2")
            al == Pos("circle_poly_alpha")
            q == Pos("queries")
        IN  /\ t[rc2 - 1] = Event("mix_felts", "sampled_values",
                                  FlattenCols(proof.sampled_values))
            /\ fi.random_coeff = DrawFeltAndHints(ReplayedBefore(rc2), "r")[2]
            /\ h.random_coeff_hint2 = DrawFeltAndHints(ReplayedBefore(rc2), "r")[3]
            /\ al = rc2 + 1
            /\ fi.circle_poly_alpha = DrawFeltAndHints(ReplayedBefore(al), "a")[2]
            /\ h.circle_poly_alpha_hint = DrawFeltAndHints(ReplayedBefore(al), "a")[3]
            /\ Len(fi.folding_alphas) = Cardinality(At("folding_alpha"))
            /\ Len(h.fri_commitment_and_folding_hints) = Len(fi.folding_alphas)
            /\ \A k \in 1..Len(fi.folding_alphas) :
                 LET i == FoldPos(k)
                     d == DrawFeltAndHints(ReplayedBefore(i), "f")
                 IN  /\ t[i - 1] = Event("mix_digest", "layer_commitment",
                                         proof.inner_layers[k].commitment)
                     /\ fi.folding_alphas[k] = d[2]
                     /\ h.fri_commitment_and_folding_hints[k][2] = d[3]
            /\ t[q - 2] = Event("mix_felts", "last_layer_poly", proof.last_layer_poly)
            /\ t[q - 1].op = "mix_nonce"
            /\ fi.queries = GenerateWithHints(ReplayedBefore(q),
                                              fi.column_log_sizes[1], N_QUERIES)[2]
            /\ h.queries_hints = GenerateWithHints(ReplayedBefore(q), 0, 0)[3]
            /\ h.random_coeff_hint = DrawFeltAndHints(ReplayedBefore(rc1), "r")[3]
            /\ h.oods_hint = GetRandomPointWithHint(ReplayedBefore(pt))[3]

\* C11 witness: an accepted run with two layers whose two random
\* coefficients differ
C11_Witness ==
    /\ outcome = "Ok"
    /\ Len(fs_output[1].fri_input.folding_alphas) = 2
    /\ fs_output[1].fri_input.random_coeff # locals.random_coeff

\* the run has built the proof-of-work hint
PowHintBuilt == locals.pow_hint.kind = "PoWHint"

\* C13: the proof-of-work hint holds the digest the transcript has right
\* after the last-layer coefficients are absorbed (the last operation before
\* the proof-of-work step), the proof's nonce and the configured difficulty;
\* the proof-of-work check comes after it and before the query draw; when
\* the check fails ProofOfWork is returned, nothing more is absorbed and no
\* query is drawn.
C13_PowHintAndCheck ==
    /\ PowHintBuilt =>
          LET t == channel.transcript
              j == Pos("last_layer_poly")
          IN  /\ \A i \in 1..(j - 1) : t[i].op # "mix_nonce" /\ t[i].op # "draw_queries"
              /\ locals.pow_hint =
                    PoWHint(ReplayedBefore(j + 1).digest, proof.nonce, PROOF_OF_WORK_BITS)
              /\ IF PowValid(locals.pow_hint.digest, proof.nonce)
                 THEN /\ ~Failed("ProofOfWork")
                      /\ Len(t) >= j + 1
                      /\ t[j + 1] = Event("mix_nonce", "nonce", proof.nonce)
                      /\ \A i \in At("queries") : i = j + 2
                 ELSE /\ Failed("ProofOfWork")
                      /\ Len(t) = j
                      /\ At("queries") = {}
                      /\ fs_output = <<>>
    /\ Failed("ProofOfWork") => PowHintBuilt
    /\ At("queries") # {} => PowHintBuilt

\* C13 witness: an accepted run whose nonce changed the digest after the hint was built
C13_Witness ==
    /\ outcome = "Ok"
    /\ PowHintBuilt
    /\ locals.pow_hint.digest # ReplayedBefore(Pos("queries")).digest

\* the largest element of a non-empty sequence of numbers
MaxOf(s) == CHOOSE x \in {s[i] : i \in 1..Len(s)} : \A i \in 1..Len(s) : s[i] <= x

\* C14: the queries of every FSOutput are drawn with the largest log size
\* among the columns the commitment scheme recorded for the two trees, which
\* is max_column_log_degree_bound plus the blowup factor and the head of
\* column_log_sizes, and with the configured number of queries.
C14_QueriesLogSize ==
    outcome = "Ok" =>
        LET fi == fs_output[1].fri_input
            largest == MaxOf(FlattenCols(<<fi.commitment_scheme_column_log_sizes>>))
        IN  /\ Len(fi.commitment_scheme_column_log_sizes) = 2
            /\ fi.queries.log_domain_size = largest
            /\ fi.queries.log_domain_size
                 = fi.max_column_log_degree_bound + LOG_BLOWUP_FACTOR
            /\ fi.queries.log_domain_size = fi.column_log_sizes[1]
            /\ largest = CompositionLogDegreeBound(air) + LOG_BLOWUP_FACTOR
            /\ fi.queries.n_queries = N_QUERIES

\* C14 witness: an accepted run on a trace of log size 2 drew queries of log size 4
C14_Witness ==
    /\ outcome = "Ok"
    /\ air.log_size = 2
    /\ fs_output[1].fri_input.queries.log_domain_size = 4

\* the two-tree structure the assertions compare: tree 0 is the AIR's mask
\* points of the only column, tree 1 four columns holding the out-of-domain point
SampledPointsMatch ==
    pc \notin {"commit_trace", "commit_composition", "sample_points"} =>
        LET mask == MaskPoints(locals.oods_point)
            sp == locals.sampled_points
        IN  /\ Len(mask) = 1 /\ Len(mask[1]) = 1 /\ Len(mask[1][1]) = 3
            /\ Len(sp) = 2
            /\ sp[1] = <<mask[1][1]>>
            /\ \A i \in 1..3 : sp[1][1][i] = locals.masked_points[1][1][i]
            /\ sp[2] = [j \in 1..4 |-> <<locals.oods_point>>]

\* C15: the seven assertions never fail: the step that builds sampled_points
\* never panics, and from then on tree 0 equals the AIR's mask points entry
\* by entry and tree 1 is four columns holding the out-of-domain point.
C15_AssertionsNeverFail ==
    /\ []SampledPointsMatch
    /\ [][pc = "sample_points" => (pc' = "sampled_values" /\ outcome' = "running")]_vars

\* C15 witness: the structure was built for an out-of-domain point other than 0
C15_Witness ==
    /\ pc = "sampled_values"
    /\ locals.oods_point # 0
    /\ locals.sampled_points[2][4][1] = locals.oods_point
    /\ locals.sampled_points[1][1][3] # locals.oods_point

\* number of transcript operations with a given role
Count(what) == Cardinality(At(what))

\* what the transcript of a failed run holds
FailedTranscript ==
    LET t == channel.transcript
        n == Len(proof.inner_layers)
    IN  /\ Failed("OodsNotMatching") =>
              /\ Len(t) = 4
              /\ Count("sampled_values") = 0
              /\ Count("random_coeff2") = 0
        /\ (Failed("InvalidNumFriLayers") /\ locals.layer_index < n) =>
              /\ Count("layer_commitment") = locals.layer_index + 1
              /\ Count("folding_alpha") = locals.layer_index + 1
              /\ t[Len(t) - 1] = Event("mix_digest", "layer_commitment",
                                       proof.inner_layers[locals.layer_index + 1].commitment)
              /\ t[Len(t)].what = "folding_alpha"
        /\ (Failed("InvalidNumFriLayers") /\ locals.layer_index = n) =>
              /\ Count("layer_commitment") = n
              /\ Count("folding_alpha") = n
        /\ Failed("InvalidNumFriLayers") => Count("last_layer_poly") = 0
        /\ Failed("LastLayerDegreeInvalid") =>
              /\ Count("layer_commitment") = n
              /\ Count("folding_alpha") = n
              /\ Count("last_layer_poly") = 0
        /\ Failed("ProofOfWork") =>
              /\ Count("last_layer_poly") = 1
              /\ Count("nonce") = 0
        /\ outcome = "Err" => Count("queries") = 0

\* C16: the step that returns an error performs no transcript operation,
\* except the loop iteration that fails to fold, which has absorbed its
\* layer's commitment and drawn its challenge; so a failed run's transcript
\* holds exactly the operations ahead of the failed check.
C16_NothingAfterFailure ==
    /\ []FailedTranscript
    /\ [][(outcome = "running" /\ outcome' = "Err") =>
            \/ channel' = channel
            \/ /\ error' = "InvalidNumFriLayers"
               /\ pc = "fri_loop"
               /\ locals.layer_index < Len(proof.inner_layers)
               /\ Len(channel'.transcript) = Len(channel.transcript) + 2
               /\ IsPrefix(channel.transcript, channel'.transcript)]_vars

\* C16 witness: a run rejected for its last layer, after two absorbed layers
C16_Witness ==
    /\ Failed("LastLayerDegreeInvalid")
    /\ Count("layer_commitment") = 2
    /\ Count("last_layer_poly") = 0

\* C17: in every FSOutput the three trace mask values followed by the four
\* composition values are, in order, the sampled values absorbed right before
\* the second random coefficient is drawn, and last_layer is the whole list
\* of last-layer coefficients absorbed ahead of the proof-of-work step.
C17_HintsAreAbsorbedValues ==
    outcome = "Ok" =>
        LET t == channel.transcript
            h == fs_output[1].fiat_shamir_hints
            sv == Pos("sampled_values")
            ll == Pos("last_layer_poly")
        IN  /\ Count("sampled_values") = 1
            /\ sv + 1 = Pos("random_coeff2")
            /\ t[sv].op = "mix_felts"
            /\ h.trace_oods_values \o h.composition_oods_values = t[sv].data
            /\ Len(h.trace_oods_values) = 3
            /\ Len(h.composition_oods_values) = 4
            /\ Count("last_layer_poly") = 1
            /\ t[ll].op = "mix_felts"
            /\ t[ll].data = <<h.last_layer>>
            /\ t[ll].data = proof.last_layer_poly
            /\ ll < Pos("nonce")

\* C17 witness: an accepted run whose only non-zero sampled value is the
\* last composition value
C17_Witness ==
    /\ outcome = "Ok"
    /\ fs_output[1].fiat_shamir_hints.composition_oods_values = <<0, 0, 0, 1>>
    /\ fs_output[1].fiat_shamir_hints.last_layer = 1

\* the run is in or past the layer loop and did not fail inside it
LoopAligned ==
    /\ pc \notin {"commit_trace", "commit_composition", "sample_points",
                  "sampled_values", "oods_check", "mix_sampled", "bounds"}
    /\ ShapeOk(proof.sampled_values)
    /\ ~Failed("OodsNotMatching")

\* C18: after k layers were processed fri_commitment_and_folding_hints and
\* folding_alphas both have length k; pair i holds the commitment of the
\* i-th inner-layer proof and the hint of the draw that gave folding_alphas[i];
\* an accepted run has one pair and one challenge per inner-layer proof.
C18_LayerSequencesAligned ==
    /\ LoopAligned =>
          LET pairs == locals.fri_commitment_and_folding_hints
              alphas == locals.folding_alphas
              k == IF Failed("InvalidNumFriLayers")
                      /\ locals.layer_index < Len(proof.inner_layers)
                   THEN locals.layer_index + 1
                   ELSE locals.layer_index
          IN  /\ Len(pairs) = k
              /\ Len(alphas) = k
              /\ k <= Len(proof.inner_layers)
              /\ \A i \in 1..k :
                   /\ pairs[i][1] = proof.inner_layers[i].commitment
                   /\ pairs[i][2] =
                        DrawFeltAndHints(ReplayedBefore(FoldPos(i)), "f")[3]
                   /\ alphas[i] =
                        DrawFeltAndHints(ReplayedBefore(FoldPos(i)), "f")[2]
                   /\ locals.inner_layers[i].layer_index = i - 1
                   /\ locals.inner_layers[i].folding_alpha = alphas[i]
    /\ ~LoopAligned => (locals.fri_commitment_and_folding_hints = <<>>
                          /\ locals.folding_alphas = <<>>)
    /\ outcome = "Ok" =>
          LET out == fs_output[1]
          IN  /\ Len(out.fiat_shamir_hints.fri_commitment_and_folding_hints)
                   = Len(proof.inner_layers)
              /\ Len(out.fri_input.folding_alphas) = Len(proof.inner_layers)
              /\ out.fiat_shamir_hints.fri_commitment_and_folding_hints
                   = locals.fri_commitment_and_folding_hints
              /\ out.fri_input.folding_alphas = locals.folding_alphas

\* C18 witness: the loop has processed two layers with different commitments
\* and a third is still to come
C18_Witness ==
    /\ pc = "fri_loop"
    /\ locals.layer_index = 2
    /\ Len(proof.inner_layers) = 3
    /\ locals.fri_commitment_and_folding_hints[1][1]
         # locals.fri_commitment_and_folding_hints[2][1]

\* C19: from the start of the loop on, the log size of layer_domain is the
\* running degree bound plus the blowup factor, and the last_layer_domain of
\* every FSOutput has log size log_last_layer_degree_bound plus the blowup
\* factor.
C19_DomainFollowsBound ==
    /\ LoopAligned =>
          /\ locals.layer_domain.log_size
               = locals.layer_bound + LOG_BLOWUP_FACTOR
          /\ locals.layer_bound
               = FoldToLine(locals.max_column_bound) - FOLD_STEP * locals.layer_index
          /\ \A i \in 1..Len(locals.inner_layers) :
               locals.inner_layers[i].domain.log_size
                 = locals.inner_layers[i].degree_bound + LOG_BLOWUP_FACTOR
    /\ outcome = "Ok" =>
          fs_output[1].fri_input.last_layer_domain.log_size
            = LOG_LAST_LAYER_DEGREE_BOUND + LOG_BLOWUP_FACTOR

\* C19 witness: an accepted run that folded bound and domain twice
C19_Witness ==
    /\ outcome = "Ok"
    /\ locals.layer_index = 2
    /\ locals.inner_layers[1].domain.log_size = 3
    /\ fs_output[1].fri_input.last_layer_domain.log_size = 1

====
